---- MODULE Spec2Model ----
(***************************************************************************)
(* Model of the rust-fuse request dispatcher (src/src/request.rs) acting   *)
(* on the session store (src/src/session.rs), of the session loop and the  *)
(* channel (src/src/session.rs, src/src/channel.rs).                       *)
(*                                                                         *)
(* One dispatch handles one parsed kernel request.  The Init arm is        *)
(* modelled statement by statement, because the order of its assignments   *)
(* and of its reply matters; every other arm is one atomic action.         *)
(*                                                                         *)
(* Spec drives the dispatcher directly with arbitrary request sequences;   *)
(* SpecSession drives it through Session::run, from a mounted session to   *)
(* the release of its channel.  SpecMount follows one call of mount()      *)
(* (src/src/ll/mount.rs), SpecOpts combines, completes and renders mount   *)
(* options, SpecBackground (FairSpecBackground with the thread scheduled   *)
(* fairly) runs the loop in the thread of a BackgroundSession, and         *)
(* SpecEvented drives the dispatcher through EventedSession::try_handle.   *)
(***************************************************************************)
EXTENDS Integers, Sequences, FiniteSets, TLC

(* ------------------------------ bounds -------------------------------- *)

\* number of requests dispatched in one session
MaxRequests == 3
\* kernel-assigned unique ids are drawn from 1..MaxUnique
MaxUnique == 2
\* descriptors the process opens after the channel was released
MaxOpens == 2
\* sends attempted through a ChannelSender after the channel was released
MaxLateSends == 2

(* --------------------------- program constants ------------------------ *)

EIO == 5
ENOSYS == 38
EPROTO == 71
FUSE_ASYNC_READ == 1
FUSE_KERNEL_VERSION == 7
FUSE_KERNEL_MINOR_VERSION == 8
MAX_WRITE_SIZE == 16777216
EPERM == 1
ENOENT == 2
EINTR == 4
EBADF == 9
EAGAIN == 11
EBUSY == 16
ENODEV == 19
ENOTCONN == 107
EMFILE == 24
EINVAL == 22

\* request.rs:24, the non-macOS flag mask
INIT_FLAGS == FUSE_ASYNC_READ

(* ------------------------------ inputs -------------------------------- *)

\* ll::Operation variants matched by dispatch (non-macOS build)
PlainOps ==
    { "Lookup", "GetAttr", "SetAttr", "ReadLink", "MkNod", "MkDir", "Unlink",
      "RmDir", "SymLink", "Rename", "Link", "Open", "Read", "Write", "Flush",
      "Release", "FSync", "OpenDir", "ReleaseDir", "FSyncDir", "StatFs",
      "SetXAttr", "GetXAttr", "ListXAttr", "RemoveXAttr", "Access", "Create",
      "GetLk", "SetLk", "SetLkW", "BMap" }

Operations == {"Init", "Destroy", "Interrupt", "Forget", "ReadDir"} \cup PlainOps

Uniques == 1..MaxUnique
\* ABI versions on both sides of the 7.6 threshold
Majors == {6, 7, 8}
Minors == {5, 6}
\* bit 0 is FUSE_ASYNC_READ, bit 1 is a capability the library does not support
InitArgFlags == {0, 1, 2, 3}
Readaheads == {0, 4096}
\* errno values the filesystem's init callback may fail with
InitErrnos == {EIO, ENOSYS}

\* a parsed request: the in-header's unique id, the operation, and for Init
\* the fuse_init_in argument
InitRequests ==
    [op : {"Init"}, unique : Uniques, major : Majors, minor : Minors,
     flags : InitArgFlags, max_readahead : Readaheads]

OtherRequests ==
    [op : Operations \ {"Init"}, unique : Uniques, major : {0}, minor : {0},
     flags : {0}, max_readahead : {0}]

Requests == InitRequests \cup OtherRequests

NoRequest ==
    [op |-> "None", unique |-> 0, major |-> 0, minor |-> 0, flags |-> 0,
     max_readahead |-> 0]

(* ------------------------------- state -------------------------------- *)

VARIABLES
    proto_major,    \* se.proto_major
    proto_minor,    \* se.proto_minor
    initialized,    \* se.initialized
    destroyed,      \* se.destroyed
    pc,             \* position of the dispatcher
    req,            \* the request being dispatched (or dispatched last)
    pre,            \* the session store as it was when dispatch was entered
    reply,          \* the local `reply` of the Init arm, <<>> when not held
    init_res,       \* result of self.init(): -1 not called, 0 Ok, else errno
    sent,           \* replies the dispatcher sent during this dispatch
    handed,         \* reply objects passed to filesystem callbacks
    calls,          \* filesystem callbacks invoked during this dispatch
    destroy_calls,  \* destroy callbacks invoked over the session
    ndispatched,    \* requests dispatched over the session
    send_rc,        \* writev result of each reply in sent (0 or an errno)
    logged,         \* messages written to the error log during this dispatch
                    \* or loop iteration
    run_pc,         \* position of the session: "direct" when the dispatcher
                    \* is driven without Session::run
    last_read,      \* outcome of the last read on the channel descriptor
    recv,           \* the RecvResult of the last Channel::receive
    run_result,     \* result of Session::run: -1 none, 0 Ok(()), else Err
    open_fds,       \* descriptors open in the process
    syscalls,       \* close and umount calls made, in order
    late,           \* sends through a ChannelSender after the release
    mnt_pc,         \* position of mount(): "off" when no mount call is modelled
    mnt_path,       \* the mountpoint argument of mount()
    mnt_fds,        \* descriptors open in the process during mount()
    mnt_calls,      \* system calls made by mount(), in order
    mnt_re,         \* results of the fuse_mount_sys attempts, in order
    mnt_result,     \* what mount() returned: <<>> while it has not returned
    mnt_socks,      \* the socket pair fuse_mount_fuser holds: <<sock1, sock2>>
    opt_pc,         \* position of the option rendering: "off" when not modelled
    opt_a,          \* the left operand, a MountOpt
    opt_b,          \* the right operand, a MountOpt
    opt_sum,        \* <<opt_a + opt_b>> once combined
    opt_text,       \* the rendered texts of opt_a, opt_b and their sum
    opt_c,          \* a third operand
    opt_ids,        \* real and effective user and group id of the process
    opt_assoc,      \* <<the two groupings of a + b + c and the sums of
                    \* opt_a with the empty List>> once combined
    opt_def,        \* <<opt_a.missing_default(), applied once and twice>>
    ev_queue,       \* messages the kernel has queued on the descriptor
    mounted,        \* the kernel still has the filesystem mounted
    ev_nonblock,    \* O_NONBLOCK is set on the descriptor
    ev_out,         \* outcome of each EventedSession::try_handle call
    bg_pc           \* position of the owner of a BackgroundSession handle

vars ==
    << proto_major, proto_minor, initialized, destroyed, pc, req, pre, reply,
       init_res, sent, handed, calls, destroy_calls, ndispatched, send_rc,
       logged, run_pc, last_read, recv, run_result, open_fds, syscalls,
       late, mnt_pc, mnt_path, mnt_fds, mnt_calls, mnt_re, mnt_result, mnt_socks,
       opt_pc, opt_a, opt_b, opt_sum, opt_text, opt_c, opt_ids, opt_assoc,
       opt_def, ev_queue, mounted, ev_nonblock, ev_out, bg_pc >>

mount_vars ==
    << mnt_pc, mnt_path, mnt_fds, mnt_calls, mnt_re, mnt_result, mnt_socks >>

opts_vars ==
    << opt_pc, opt_a, opt_b, opt_sum, opt_text, opt_c, opt_ids, opt_assoc,
       opt_def >>

evented_vars == << ev_queue, ev_nonblock, ev_out >>

bg_vars == << bg_pc, mounted >>

\* what no step of a session touches
elsewhere == << mount_vars, opts_vars, evented_vars, bg_vars >>

\* what no step of the dispatcher touches
outside ==
    << last_read, recv, run_result, open_fds, syscalls, late, elsewhere >>

store == << proto_major, proto_minor, initialized, destroyed >>

SessionStore ==
    [proto_major |-> proto_major, proto_minor |-> proto_minor,
     initialized |-> initialized, destroyed |-> destroyed]

(* ------------------------- pure helper functions ---------------------- *)

\* bitwise AND of two naturals (u32 `&`)
RECURSIVE BitAnd(_, _)
BitAnd(a, b) ==
    IF a = 0 \/ b = 0 THEN 0
    ELSE (a % 2) * (b % 2) + 2 * BitAnd(a \div 2, b \div 2)

\* mutant: the reply object is not bound to the request's unique id
ReplyNew_Zero(unique) == [unique |-> 0]

\* Reply::new(unique, sender): a one-shot reply object bound to a unique id
ReplyNew(unique) == [unique |-> unique]

\* Request::reply(): the reply object of the request being dispatched
RequestReply(r) == ReplyNew(r.unique)

\* reply.error(errno): out-header with the negated errno and no payload
ReplyError(rp, errno) == [unique |-> rp.unique, error |-> 0 - errno, body |-> <<>>]

\* reply.ok() / reply.ok(&value): out-header with error 0 and the payload
ReplyOk(rp, payload) == [unique |-> rp.unique, error |-> 0, body |-> payload]

\* mutant: the minor version is not checked
VersionTooOld_MajorOnly(major, minor) == major < 7

\* mutant: minor version 5 of major version 7 is accepted
VersionTooOld_Below75(major, minor) == major < 7 \/ (major = 7 /\ minor < 5)

\* the ABI check of the Init arm
VersionTooOld(major, minor) == major < 7 \/ (major = 7 /\ minor < 6)

\* mutant: the kernel's flags are echoed without masking
InitOut_AllFlags(arg) ==
    [major |-> FUSE_KERNEL_VERSION,
     minor |-> FUSE_KERNEL_MINOR_VERSION,
     max_readahead |-> arg.max_readahead,
     flags |-> arg.flags,
     unused |-> 0,
     max_write |-> MAX_WRITE_SIZE]

\* the fuse_init_out composed by the Init arm; `MAX_WRITE_SIZE as u32` is
\* exact, the value being below 2^32
InitOut(arg) ==
    [major |-> FUSE_KERNEL_VERSION,
     minor |-> FUSE_KERNEL_MINOR_VERSION,
     max_readahead |-> arg.max_readahead,
     flags |-> BitAnd(arg.flags, INIT_FLAGS),
     unused |-> 0,
     max_write |-> MAX_WRITE_SIZE]

\* the filesystem method each plain arm calls
CallbackOf(op) ==
    CASE op = "Lookup" -> "lookup"
      [] op = "GetAttr" -> "getattr"
      [] op = "SetAttr" -> "setattr"
      [] op = "ReadLink" -> "readlink"
      [] op = "MkNod" -> "mknod"
      [] op = "MkDir" -> "mkdir"
      [] op = "Unlink" -> "unlink"
      [] op = "RmDir" -> "rmdir"
      [] op = "SymLink" -> "symlink"
      [] op = "Rename" -> "rename"
      [] op = "Link" -> "link"
      [] op = "Open" -> "open"
      [] op = "Read" -> "read"
      [] op = "Write" -> "write"
      [] op = "Flush" -> "flush"
      [] op = "Release" -> "release"
      [] op = "FSync" -> "fsync"
      [] op = "OpenDir" -> "opendir"
      [] op = "ReleaseDir" -> "releasedir"
      [] op = "FSyncDir" -> "fsyncdir"
      [] op = "StatFs" -> "statfs"
      [] op = "SetXAttr" -> "setxattr"
      [] op = "GetXAttr" -> "getxattr"
      [] op = "ListXAttr" -> "listxattr"
      [] op = "RemoveXAttr" -> "removexattr"
      [] op = "Access" -> "access"
      [] op = "Create" -> "create"
      [] op = "GetLk" -> "getlk"
      [] op = "SetLk" -> "setlk"
      [] op = "SetLkW" -> "setlk"
      [] op = "BMap" -> "bmap"

\* mutant: the Destroy arm is placed before the not-initialized guard
MatchArm_DestroyFirst(op, isInitialized, isDestroyed) ==
    IF op = "Init" THEN "Init"
    ELSE IF op = "Destroy" THEN "Destroy"
    ELSE IF ~isInitialized THEN "BeforeInit"
    ELSE IF isDestroyed THEN "AfterDestroy"
    ELSE IF op \in PlainOps THEN "Plain"
    ELSE op

\* the arm of the `match` in dispatch that a request takes: arms are tried
\* in source order, the two guarded wildcard arms included
MatchArm(op, isInitialized, isDestroyed) ==
    IF op = "Init" THEN "Init"
    ELSE IF ~isInitialized THEN "BeforeInit"
    ELSE IF op = "Destroy" THEN "Destroy"
    ELSE IF isDestroyed THEN "AfterDestroy"
    ELSE IF op \in PlainOps THEN "Plain"
    ELSE op

(* ------------------------------- channel ------------------------------ *)

\* the descriptor the mounted channel owns (Channel.fd)
ChannelFd == 3

\* the canonical mount path the channel stores (Channel.mountpoint)
MountPath == "/mnt/fuse"

\* errno values a read on the channel descriptor may fail with; EIO stands
\* for every errno Channel::receive does not name
ReadErrnos == {ENOENT, EINTR, EAGAIN, ENODEV, EIO}

\* outcomes of one read on the descriptor: a message that parses into a
\* request, a message that does not parse, or a failure with an errno
ReadOutcomes ==
    [ok : {TRUE}, errno : {0}, parses : {TRUE}, req : Requests]
        \cup [ok : {TRUE}, errno : {0}, parses : {FALSE}, req : {NoRequest}]
        \cup [ok : {FALSE}, errno : ReadErrnos, parses : {FALSE}, req : {NoRequest}]

NoRead == [ok |-> FALSE, errno |-> 0, parses |-> FALSE, req |-> NoRequest]

NoRecv == [kind |-> "None", req |-> NoRequest, err |-> 0]

\* Request::new: Some(request) when the message parses, None otherwise
RequestNew(rd) == IF rd.parses THEN <<rd.req>> ELSE <<>>

\* Request::new, lines 511-515: the parse error is written to the log
RequestNewLog(rd) == IF rd.ok /\ ~rd.parses THEN {"parse error"} ELSE {}

\* mutant: a message that does not parse is skipped
ChannelReceive_SkipIllegal(rd) ==
    IF rd.ok
    THEN IF RequestNew(rd) # <<>>
         THEN [kind |-> "Some", req |-> RequestNew(rd)[1], err |-> 0]
         ELSE [kind |-> "Retry", req |-> NoRequest, err |-> 0]
    ELSE IF rd.errno \in {ENOENT, EINTR, EAGAIN}
         THEN [kind |-> "Retry", req |-> NoRequest, err |-> 0]
    ELSE IF rd.errno = ENODEV
         THEN [kind |-> "Drop", req |-> NoRequest, err |-> 0]
    ELSE [kind |-> "Drop", req |-> NoRequest, err |-> rd.errno]

\* mutant: ENOENT is not treated as a retry
ChannelReceive_EnoentFatal(rd) ==
    IF rd.ok
    THEN IF RequestNew(rd) # <<>>
         THEN [kind |-> "Some", req |-> RequestNew(rd)[1], err |-> 0]
         ELSE [kind |-> "Drop", req |-> NoRequest, err |-> 0]
    ELSE IF rd.errno \in {EINTR, EAGAIN}
         THEN [kind |-> "Retry", req |-> NoRequest, err |-> 0]
    ELSE IF rd.errno = ENODEV
         THEN [kind |-> "Drop", req |-> NoRequest, err |-> 0]
    ELSE [kind |-> "Drop", req |-> NoRequest, err |-> rd.errno]

\* Channel::receive: the RecvResult for the outcome rd of the read; err is
\* 0 for Drop(None) and the errno for Drop(Some(err))
ChannelReceive(rd) ==
    IF rd.ok
    THEN IF RequestNew(rd) # <<>>
         THEN [kind |-> "Some", req |-> RequestNew(rd)[1], err |-> 0]
         ELSE [kind |-> "Drop", req |-> NoRequest, err |-> 0]
    ELSE IF rd.errno \in {ENOENT, EINTR, EAGAIN}
         THEN [kind |-> "Retry", req |-> NoRequest, err |-> 0]
    ELSE IF rd.errno = ENODEV
         THEN [kind |-> "Drop", req |-> NoRequest, err |-> 0]
    ELSE [kind |-> "Drop", req |-> NoRequest, err |-> rd.errno]

\* ChannelSender::send on descriptor number fd when the descriptors fds are
\* open: the possible results of the writev, 0 for Ok(()).  A closed
\* descriptor gives EBADF; an open one takes the write, or the kernel
\* refuses it (ENOENT: the request is no longer pending).
ChannelSenderSend(fd, fds) == IF fd \in fds THEN {0, ENOENT} ELSE {EBADF}

\* ReplySender::send for the replies sent in this step: each is written with
\* ChannelSender::send, a failure is logged and nothing is returned.  The
\* step that enters dispatch (pc = "idle") starts the log record of that
\* dispatch.
ReplySenderSend ==
    \E rcs \in [1..Len(sent') -> ChannelSenderSend(ChannelFd, open_fds)] :
        /\ send_rc' = rcs
        /\ logged' = (IF pc = "idle" THEN {} ELSE logged) \cup
                IF \E i \in 1..Len(rcs) : rcs[i] # 0
                THEN {"Failed to send FUSE reply"} ELSE {}

\* results of libc::umount on the mount path: 0 or the errno
UmountResults == {0, EPERM, EBUSY}

\* unmount(mountpoint) given the result rc of the umount syscall: the
\* permission-denied branch is unimplemented!() and panics, any other
\* failure is returned as Err
Unmount(rc) ==
    IF rc = EPERM THEN [panics |-> TRUE, err |-> 0]
    ELSE [panics |-> FALSE, err |-> rc]

(* ------------------------------- actions ------------------------------ *)

\* no mount() call is modelled
MountOff ==
    /\ mnt_pc = "off"
    /\ mnt_path = ""
    /\ mnt_fds = {}
    /\ mnt_calls = <<>>
    /\ mnt_re = <<>>
    /\ mnt_result = <<>>
    /\ mnt_socks = <<>>

\* no option rendering is modelled
OptsOff ==
    /\ opt_pc = "off"
    /\ opt_a = <<>>
    /\ opt_b = <<>>
    /\ opt_sum = <<>>
    /\ opt_text = <<>>
    /\ opt_c = <<>>
    /\ opt_ids = <<>>
    /\ opt_assoc = <<>>
    /\ opt_def = <<>>

\* no evented session is modelled
EventedOff ==
    /\ ev_queue = <<>>
    /\ ev_nonblock = FALSE
    /\ ev_out = <<>>

\* no BackgroundSession is modelled
BackgroundOff == bg_pc = "off" /\ mounted = FALSE

Init ==
    /\ proto_major = 0
    /\ proto_minor = 0
    /\ initialized = FALSE
    /\ destroyed = FALSE
    /\ pc = "idle"
    /\ req = NoRequest
    /\ pre = SessionStore
    /\ reply = <<>>
    /\ init_res = -1
    /\ sent = <<>>
    /\ handed = <<>>
    /\ calls = <<>>
    /\ destroy_calls = 0
    /\ ndispatched = 0
    /\ send_rc = <<>>
    /\ logged = {}
    /\ run_pc = "direct"
    /\ last_read = NoRead
    /\ recv = NoRecv
    /\ run_result = -1
    /\ open_fds = {ChannelFd}
    /\ syscalls = <<>>
    /\ late = <<>>
    /\ MountOff
    /\ OptsOff
    /\ EventedOff
    /\ BackgroundOff

\* entry of dispatch(request, se) for request r taking arm `arm`: called
\* directly, or by Session::run with the request it received
Enter(r, arm) ==
    /\ pc = "idle"
    /\ ndispatched < MaxRequests
    /\ MatchArm(r.op, initialized, destroyed) = arm
    /\ \/ run_pc = "direct" /\ run_pc' = "direct"
       \/ run_pc = "received" /\ recv.kind = "Some" /\ r = recv.req
                              /\ run_pc' = "dispatching"
    /\ UNCHANGED outside
    /\ req' = r
    /\ pre' = SessionStore
    /\ ndispatched' = ndispatched + 1
    /\ init_res' = -1

\* Init arm, line 60: let reply = request.reply()
InitBegin(r) ==
    /\ Enter(r, "Init")
    /\ reply' = <<RequestReply(r)>>
    /\ sent' = <<>>
    /\ handed' = <<>>
    /\ calls' = <<>>
    /\ pc' = "init_check"
    /\ UNCHANGED << store, destroy_calls >>
    /\ ReplySenderSend

\* Init arm, lines 62-66: unsupported ABI, reply.error(EPROTO); return
InitReject ==
    /\ pc = "init_check"
    /\ VersionTooOld(req.major, req.minor)
    /\ sent' = Append(sent, ReplyError(reply[1], EPROTO))
    /\ reply' = <<>>
    /\ pc' = "idle"
    /\ UNCHANGED << store, req, pre, init_res, handed, calls, destroy_calls,
                    ndispatched >>
    /\ ReplySenderSend
    /\ UNCHANGED << run_pc, outside >>

\* mutant: initialized is set together with the recorded version
InitRecord_SetsInitialized ==
    /\ pc = "init_check"
    /\ ~VersionTooOld(req.major, req.minor)
    /\ proto_major' = req.major
    /\ proto_minor' = req.minor
    /\ initialized' = TRUE
    /\ pc' = "init_call"
    /\ UNCHANGED << destroyed, req, pre, reply, init_res, sent, handed, calls,
                    destroy_calls, ndispatched >>
    /\ UNCHANGED << send_rc, logged >>
    /\ UNCHANGED << run_pc, outside >>

\* Init arm, lines 68-69: remember the kernel's ABI version
InitRecord ==
    /\ pc = "init_check"
    /\ ~VersionTooOld(req.major, req.minor)
    /\ proto_major' = req.major
    /\ proto_minor' = req.minor
    /\ pc' = "init_call"
    /\ UNCHANGED << initialized, destroyed, req, pre, reply, init_res, sent,
                    handed, calls, destroy_calls, ndispatched >>
    /\ UNCHANGED << send_rc, logged >>
    /\ UNCHANGED << run_pc, outside >>

\* Init arm, line 71: let res = self.init(request)
InitCallback ==
    /\ pc = "init_call"
    /\ \E res \in {0} \cup InitErrnos : init_res' = res
    /\ calls' = Append(calls, "init")
    /\ pc' = "init_result"
    /\ UNCHANGED << store, req, pre, reply, sent, handed, destroy_calls,
                    ndispatched >>
    /\ UNCHANGED << send_rc, logged >>
    /\ UNCHANGED << run_pc, outside >>

\* mutant: the `return` after reply.error(err) is missing
InitFail_NoReturn ==
    /\ pc = "init_result"
    /\ init_res # 0
    /\ initialized' = TRUE
    /\ sent' = sent \o << ReplyError(reply[1], init_res),
                           ReplyOk(reply[1], <<InitOut(req)>>) >>
    /\ reply' = <<>>
    /\ pc' = "idle"
    /\ UNCHANGED << proto_major, proto_minor, destroyed, req, pre, init_res,
                    handed, calls, destroy_calls, ndispatched >>
    /\ ReplySenderSend
    /\ UNCHANGED << run_pc, outside >>

\* mutant: a failed init callback takes the session back to uninitialized
InitFail_ClearsInitialized ==
    /\ pc = "init_result"
    /\ init_res # 0
    /\ initialized' = FALSE
    /\ sent' = Append(sent, ReplyError(reply[1], init_res))
    /\ reply' = <<>>
    /\ pc' = "idle"
    /\ UNCHANGED << proto_major, proto_minor, destroyed, req, pre, init_res,
                    handed, calls, destroy_calls, ndispatched >>
    /\ ReplySenderSend
    /\ UNCHANGED << run_pc, outside >>

\* Init arm, lines 72-75: the callback failed, reply.error(err); return
InitFail ==
    /\ pc = "init_result"
    /\ init_res # 0
    /\ sent' = Append(sent, ReplyError(reply[1], init_res))
    /\ reply' = <<>>
    /\ pc' = "idle"
    /\ UNCHANGED << store, req, pre, init_res, handed, calls, destroy_calls,
                    ndispatched >>
    /\ ReplySenderSend
    /\ UNCHANGED << run_pc, outside >>

\* Init arm, line 91: se.initialized = true
InitSetInitialized ==
    /\ pc = "init_result"
    /\ init_res = 0
    /\ initialized' = TRUE
    /\ pc' = "init_reply"
    /\ UNCHANGED << proto_major, proto_minor, destroyed, req, pre, reply,
                    init_res, sent, handed, calls, destroy_calls, ndispatched >>
    /\ UNCHANGED << send_rc, logged >>
    /\ UNCHANGED << run_pc, outside >>

\* Init arm, line 92: reply.ok(&init)
InitReplyOk ==
    /\ pc = "init_reply"
    /\ sent' = Append(sent, ReplyOk(reply[1], <<InitOut(req)>>))
    /\ reply' = <<>>
    /\ pc' = "idle"
    /\ UNCHANGED << store, req, pre, init_res, handed, calls, destroy_calls,
                    ndispatched >>
    /\ ReplySenderSend
    /\ UNCHANGED << run_pc, outside >>

\* lines 95-98: any operation is invalid before initialization
DispatchBeforeInit(r) ==
    /\ Enter(r, "BeforeInit")
    /\ sent' = <<ReplyError(RequestReply(r), EIO)>>
    /\ handed' = <<>>
    /\ calls' = <<>>
    /\ UNCHANGED << store, pc, reply, destroy_calls >>
    /\ ReplySenderSend

\* mutant: the Destroy arm forgets to set the destroyed flag
DispatchDestroy_NoFlag(r) ==
    /\ Enter(r, "Destroy")
    /\ calls' = <<"destroy">>
    /\ destroy_calls' = destroy_calls + 1
    /\ destroyed' = destroyed
    /\ sent' = <<ReplyOk(RequestReply(r), <<>>)>>
    /\ handed' = <<>>
    /\ UNCHANGED << proto_major, proto_minor, initialized, pc, reply >>
    /\ ReplySenderSend

\* lines 100-104: self.destroy(request); se.destroyed = true; reply ok
DispatchDestroy(r) ==
    /\ Enter(r, "Destroy")
    /\ calls' = <<"destroy">>
    /\ destroy_calls' = destroy_calls + 1
    /\ destroyed' = TRUE
    /\ sent' = <<ReplyOk(RequestReply(r), <<>>)>>
    /\ handed' = <<>>
    /\ UNCHANGED << proto_major, proto_minor, initialized, pc, reply >>
    /\ ReplySenderSend

\* lines 106-109: any operation is invalid after destroy
DispatchAfterDestroy(r) ==
    /\ Enter(r, "AfterDestroy")
    /\ sent' = <<ReplyError(RequestReply(r), EIO)>>
    /\ handed' = <<>>
    /\ calls' = <<>>
    /\ UNCHANGED << store, pc, reply, destroy_calls >>
    /\ ReplySenderSend

\* mutant: the Interrupt arm is left empty
DispatchInterrupt_NoReply(r) ==
    /\ Enter(r, "Interrupt")
    /\ sent' = <<>>
    /\ handed' = <<>>
    /\ calls' = <<>>
    /\ UNCHANGED << store, pc, reply, destroy_calls >>
    /\ ReplySenderSend

\* mutant: the Interrupt arm also tells the filesystem
DispatchInterrupt_Notifies(r) ==
    /\ Enter(r, "Interrupt")
    /\ sent' = <<ReplyError(RequestReply(r), ENOSYS)>>
    /\ handed' = <<>>
    /\ calls' = <<"interrupt">>
    /\ UNCHANGED << store, pc, reply, destroy_calls >>
    /\ ReplySenderSend

\* lines 111-114: Interrupt is answered with ENOSYS
DispatchInterrupt(r) ==
    /\ Enter(r, "Interrupt")
    /\ sent' = <<ReplyError(RequestReply(r), ENOSYS)>>
    /\ handed' = <<>>
    /\ calls' = <<>>
    /\ UNCHANGED << store, pc, reply, destroy_calls >>
    /\ ReplySenderSend

\* mutant: the Forget arm answers like the other arms without a result
DispatchForget_Replies(r) ==
    /\ Enter(r, "Forget")
    /\ sent' = <<ReplyOk(RequestReply(r), <<>>)>>
    /\ handed' = <<>>
    /\ calls' = <<"forget">>
    /\ UNCHANGED << store, pc, reply, destroy_calls >>
    /\ ReplySenderSend

\* lines 119-121: self.forget(...), no reply
DispatchForget(r) ==
    /\ Enter(r, "Forget")
    /\ sent' = <<>>
    /\ handed' = <<>>
    /\ calls' = <<"forget">>
    /\ UNCHANGED << store, pc, reply, destroy_calls >>
    /\ ReplySenderSend

\* lines 343-351: self.readdir(..., ReplyDirectory::new(unique, ch, size))
DispatchReadDir(r) ==
    /\ Enter(r, "ReadDir")
    /\ sent' = <<>>
    /\ handed' = << [unique |-> ReplyNew(r.unique).unique, to |-> "readdir",
                     ctor |-> "ReplyDirectory::new"] >>
    /\ calls' = <<"readdir">>
    /\ UNCHANGED << store, pc, reply, destroy_calls >>
    /\ ReplySenderSend

\* every other arm: self.<callback>(request, ..., request.reply()).  The
\* asserts of the Write and SetXAttr arms compare two lengths of the same
\* kernel-framed message and hold of every message the kernel produces.
DispatchPlain(r) ==
    /\ Enter(r, "Plain")
    /\ sent' = <<>>
    /\ handed' = << [unique |-> RequestReply(r).unique, to |-> CallbackOf(r.op),
                     ctor |-> "Request::reply"] >>
    /\ calls' = <<CallbackOf(r.op)>>
    /\ UNCHANGED << store, pc, reply, destroy_calls >>
    /\ ReplySenderSend

\* the requests dispatch can be entered with: any request when the
\* dispatcher is driven directly, the received one under Session::run
Dispatchable ==
    IF pc # "idle" THEN {}
    ELSE IF run_pc = "direct" THEN Requests
    ELSE IF run_pc = "received" /\ recv.kind = "Some" THEN {recv.req}
    ELSE {}

Next ==
    \/ \E r \in Dispatchable : InitBegin(r)
    \/ InitReject
    \/ InitRecord
    \/ InitCallback
    \/ InitFail
    \/ InitSetInitialized
    \/ InitReplyOk
    \/ \E r \in Dispatchable : DispatchBeforeInit(r)
    \/ \E r \in Dispatchable : DispatchDestroy(r)
    \/ \E r \in Dispatchable : DispatchAfterDestroy(r)
    \/ \E r \in Dispatchable : DispatchInterrupt(r)
    \/ \E r \in Dispatchable : DispatchForget(r)
    \/ \E r \in Dispatchable : DispatchReadDir(r)
    \/ \E r \in Dispatchable : DispatchPlain(r)

Spec == Init /\ [][Next]_vars

(* ------------------------- session and channel ------------------------ *)

\* Session::new succeeded: the channel is mounted on MountPath and owns
\* ChannelFd, the session store is in its initial state, run was not called
InitSession ==
    /\ proto_major = 0
    /\ proto_minor = 0
    /\ initialized = FALSE
    /\ destroyed = FALSE
    /\ pc = "idle"
    /\ req = NoRequest
    /\ pre = SessionStore
    /\ reply = <<>>
    /\ init_res = -1
    /\ sent = <<>>
    /\ handed = <<>>
    /\ calls = <<>>
    /\ destroy_calls = 0
    /\ ndispatched = 0
    /\ send_rc = <<>>
    /\ logged = {}
    /\ run_pc = "created"
    /\ last_read = NoRead
    /\ recv = NoRecv
    /\ run_result = -1
    /\ open_fds = {ChannelFd}
    /\ syscalls = <<>>
    /\ late = <<>>
    /\ MountOff
    /\ OptsOff
    /\ EventedOff
    /\ BackgroundOff

dispatcher_vars ==
    << proto_major, proto_minor, initialized, destroyed, pc, req, pre, reply,
       init_res, sent, handed, calls, destroy_calls, ndispatched, send_rc >>

\* Session::run is called: the buffer is allocated and the loop entered
RunStart ==
    /\ run_pc = "created"
    /\ run_pc' = "receive"
    /\ UNCHANGED << dispatcher_vars, logged, outside >>

\* mutant: the next receive is issued while the previous request is still
\* being dispatched
RunReceive_Early ==
    /\ run_pc \in {"receive", "dispatching"}
    /\ \E rd \in ReadOutcomes :
          /\ rd.parses => ndispatched < MaxRequests
          /\ last_read' = rd
          /\ recv' = ChannelReceive(rd)
          /\ logged' = logged \cup RequestNewLog(rd)
    /\ run_pc' = "received"
    /\ UNCHANGED << elsewhere, dispatcher_vars, run_result, open_fds, syscalls, late >>

\* top of the loop: self.ch.receive(&mut buffer), one read on the descriptor
\* classified by Channel::receive
RunReceive ==
    /\ run_pc = "receive"
    /\ \E rd \in ReadOutcomes :
          /\ rd.parses => ndispatched < MaxRequests
          /\ last_read' = rd
          /\ recv' = ChannelReceive(rd)
          /\ logged' = logged \cup RequestNewLog(rd)
    /\ run_pc' = "received"
    /\ UNCHANGED << elsewhere, dispatcher_vars, run_result, open_fds, syscalls, late >>

\* the end of one loop iteration: the RecvResult and the request borrowed
\* from the buffer go out of scope, and with them what was observed of the
\* dispatch; the session store and the counters stay
EndIteration ==
    /\ last_read' = NoRead
    /\ recv' = NoRecv
    /\ req' = NoRequest
    /\ pre' = SessionStore
    /\ init_res' = -1
    /\ sent' = <<>>
    /\ handed' = <<>>
    /\ calls' = <<>>
    /\ send_rc' = <<>>
    /\ logged' = {}
    /\ UNCHANGED << elsewhere, store, pc, reply, destroy_calls, ndispatched, open_fds,
                    syscalls, late >>

\* mutant: a failed reply send ends the loop with an error
RunContinue_FailOnSendError ==
    /\ run_pc = "dispatching"
    /\ pc = "idle"
    /\ IF \E i \in 1..Len(send_rc) : send_rc[i] # 0
       THEN /\ run_pc' = "returned"
            /\ run_result' = send_rc[1]
            /\ UNCHANGED << elsewhere, dispatcher_vars, logged, last_read, recv, open_fds,
                            syscalls, late >>
       ELSE /\ run_pc' = "receive"
            /\ run_result' = run_result
            /\ EndIteration

\* RecvResult::Some(request) => request.dispatch(self): dispatch has
\* returned, the loop goes on to the next receive
RunContinue ==
    /\ run_pc = "dispatching"
    /\ pc = "idle"
    /\ run_pc' = "receive"
    /\ run_result' = run_result
    /\ EndIteration

\* RecvResult::Retry => continue
RunRetry ==
    /\ run_pc = "received"
    /\ recv.kind = "Retry"
    /\ run_pc' = "receive"
    /\ run_result' = run_result
    /\ EndIteration

\* mutant: a detach always ends run with Ok(())
RunReturn_AlwaysOk ==
    /\ run_pc = "received"
    /\ recv.kind = "Drop"
    /\ run_result' = 0
    /\ run_pc' = "returned"
    /\ UNCHANGED << elsewhere, dispatcher_vars, logged, last_read, recv, open_fds, syscalls, late >>

\* RecvResult::Drop(None) => return Ok(()), Drop(Some(err)) => return Err(err)
RunReturn ==
    /\ run_pc = "received"
    /\ recv.kind = "Drop"
    /\ run_result' = recv.err
    /\ run_pc' = "returned"
    /\ UNCHANGED << elsewhere, dispatcher_vars, logged, last_read, recv, open_fds, syscalls, late >>

SysClose(fd) == [call |-> "close", fd |-> fd, path |-> "", rc |-> 0]

SysUmount(path, rc) == [call |-> "umount", fd |-> 0, path |-> path, rc |-> rc]

\* mutant: the mount point is unmounted before the descriptor is closed
ChannelDrop_UnmountFirst ==
    /\ run_pc \in {"created", "returned"}
    /\ \E rc \in UmountResults :
          /\ syscalls' = syscalls \o << SysUmount(MountPath, rc), SysClose(ChannelFd) >>
          /\ run_pc' = IF Unmount(rc).panics THEN "panicked" ELSE "released"
    /\ open_fds' = open_fds \ {ChannelFd}
    /\ UNCHANGED << elsewhere, dispatcher_vars, logged, last_read, recv, run_result, late >>

\* the session goes out of scope, after run returned or without run having
\* been called, and its channel is dropped: libc::close(self.fd), then
\* let _ = unmount(&self.mountpoint)
ChannelDrop ==
    /\ run_pc \in {"created", "returned"}
    /\ \E rc \in UmountResults :
          /\ syscalls' = syscalls \o << SysClose(ChannelFd), SysUmount(MountPath, rc) >>
          /\ run_pc' = IF Unmount(rc).panics THEN "panicked" ELSE "released"
    /\ open_fds' = open_fds \ {ChannelFd}
    /\ UNCHANGED << elsewhere, dispatcher_vars, logged, last_read, recv, run_result, late >>

\* the lowest descriptor number not open (0, 1 and 2 are the standard streams)
LowestFree(fds) == CHOOSE n \in 3..(3 + Cardinality(fds)) :
                      n \notin fds /\ \A m \in 3..(n - 1) : m \in fds

\* after the release the process opens another file or socket: the kernel
\* hands out the lowest free descriptor number
ProcessOpen ==
    /\ run_pc = "released"
    /\ Cardinality(open_fds) < MaxOpens
    /\ open_fds' = open_fds \cup {LowestFree(open_fds)}
    /\ UNCHANGED << elsewhere, dispatcher_vars, logged, run_pc, last_read, recv, run_result,
                    syscalls, late >>

\* a ChannelSender taken from the channel before its release (a copy of the
\* descriptor number) is used afterwards: writev(self.fd, ...)
LateSend ==
    /\ run_pc = "released"
    /\ Len(late) < MaxLateSends
    /\ \E rc \in ChannelSenderSend(ChannelFd, open_fds) :
          late' = Append(late, [rc |-> rc, wrote |-> (rc = 0)])
    /\ UNCHANGED << elsewhere, dispatcher_vars, logged, run_pc, last_read, recv, run_result,
                    open_fds, syscalls >>

NextSession ==
    \/ Next
    \/ RunStart
    \/ RunReceive
    \/ RunContinue
    \/ RunRetry
    \/ RunReturn
    \/ ChannelDrop
    \/ ProcessOpen
    \/ LateSend

SpecSession == InitSession /\ [][NextSession]_vars

(* -------------------------------- mount ------------------------------- *)

session_vars ==
    << dispatcher_vars, logged, run_pc, last_read, recv, run_result, open_fds,
       syscalls, late >>

\* no session is modelled
SessionOff ==
    /\ proto_major = 0
    /\ proto_minor = 0
    /\ initialized = FALSE
    /\ destroyed = FALSE
    /\ pc = "idle"
    /\ req = NoRequest
    /\ pre = SessionStore
    /\ reply = <<>>
    /\ init_res = -1
    /\ sent = <<>>
    /\ handed = <<>>
    /\ calls = <<>>
    /\ destroy_calls = 0
    /\ ndispatched = 0
    /\ send_rc = <<>>
    /\ logged = {}
    /\ run_pc = "off"
    /\ last_read = NoRead
    /\ recv = NoRecv
    /\ run_result = -1
    /\ open_fds = {}
    /\ syscalls = <<>>
    /\ late = <<>>

\* mountpoints given to mount(): a fresh directory and one with a dead
\* mount left on it
MountPaths == {"/mnt/fuse", "/mnt/stale"}

\* descriptors the process already holds when it calls mount()
PreOpen == {{}, {3}, {3, 4}}

\* errno values of a failed open of /dev/fuse
OpenErrnos == {ENOENT, EPERM}

\* errno values of a failed mount syscall
MountErrnos == {ENOTCONN, EPERM, EBUSY}

Ok(v) == [ok |-> TRUE, val |-> v]

Err(e) == [ok |-> FALSE, val |-> e]

SysOpen(fd, rc) == [call |-> "open", fd |-> fd, path |-> "/dev/fuse", rc |-> rc]

SysMount(path, fd, rc) == [call |-> "mount", fd |-> fd, path |-> path, rc |-> rc]

SysFusermount(path, rc) ==
    [call |-> "fusermount", fd |-> 0, path |-> path, rc |-> rc]

\* mutant: the descriptor of a failed attempt is not closed
FuseMountSys_LeaksOnFailure(path, fds) ==
    LET fd == LowestFree(fds) IN
    {[calls |-> <<SysOpen(0, e)>>, fds |-> fds, re |-> Err(e)] : e \in OpenErrnos}
    \cup {[calls |-> <<SysOpen(fd, 0), SysMount(path, fd, 0)>>,
           fds |-> fds \cup {fd}, re |-> Ok(fd)]}
    \cup {[calls |-> <<SysOpen(fd, 0), SysMount(path, fd, e)>>,
           fds |-> fds \cup {fd}, re |-> Err(e)] : e \in MountErrnos}

\* fuse_mount_sys(mountpoint, args) with the descriptors fds open: the
\* system calls it makes, the descriptors open afterwards and its result.
\* The File of /dev/fuse is dropped, and so closed, unless into_raw_fd
\* hands it out on success.
FuseMountSys(path, fds) ==
    LET fd == LowestFree(fds) IN
    {[calls |-> <<SysOpen(0, e)>>, fds |-> fds, re |-> Err(e)] : e \in OpenErrnos}
    \cup {[calls |-> <<SysOpen(fd, 0), SysMount(path, fd, 0)>>,
           fds |-> fds \cup {fd}, re |-> Ok(fd)]}
    \cup {[calls |-> <<SysOpen(fd, 0), SysMount(path, fd, e), SysClose(fd)>>,
           fds |-> fds, re |-> Err(e)] : e \in MountErrnos}

InitMount ==
    /\ SessionOff
    /\ OptsOff
    /\ EventedOff
    /\ BackgroundOff
    /\ mnt_pc = "idle"
    /\ mnt_path = ""
    /\ mnt_fds = {}
    /\ mnt_calls = <<>>
    /\ mnt_re = <<>>
    /\ mnt_result = <<>>
    /\ mnt_socks = <<>>

\* mount(mountpoint, args) is called
MountCall ==
    /\ mnt_pc = "idle"
    /\ \E p \in MountPaths, fds \in PreOpen :
          /\ mnt_path' = p
          /\ mnt_fds' = fds
    /\ mnt_pc' = "caps"
    /\ UNCHANGED << mnt_calls, mnt_re, mnt_result, session_vars,
                    opts_vars, evented_vars, bg_vars, mnt_socks >>

\* lines 98-100: Capabilities::from_current_proc()? and the check of
\* CAP_SYS_ADMIN
MountCaps ==
    /\ mnt_pc = "caps"
    /\ \/ mnt_pc' = "returned" /\ mnt_result' = <<Err(ENOENT)>>
       \/ mnt_pc' = "sys" /\ mnt_result' = mnt_result
       \/ mnt_pc' = "fuser" /\ mnt_result' = mnt_result
    /\ UNCHANGED << mnt_path, mnt_fds, mnt_calls, mnt_re, session_vars,
                    opts_vars, evented_vars, bg_vars, mnt_socks >>

\* line 101: let re = fuse_mount_sys(&mountpoint, args.clone())
MountFirstAttempt ==
    /\ mnt_pc = "sys"
    /\ \E o \in FuseMountSys(mnt_path, mnt_fds) :
          /\ mnt_calls' = mnt_calls \o o.calls
          /\ mnt_fds' = o.fds
          /\ mnt_re' = <<o.re>>
    /\ mnt_pc' = "match"
    /\ UNCHANGED << mnt_path, mnt_result, session_vars,
                    opts_vars, evented_vars, bg_vars, mnt_socks >>

\* line 108: `_ => re`, the first result is returned
MountReturnFirst ==
    /\ mnt_pc = "match"
    /\ ~(~mnt_re[1].ok /\ mnt_re[1].val = ENOTCONN)
    /\ mnt_result' = <<mnt_re[1]>>
    /\ mnt_pc' = "returned"
    /\ UNCHANGED << mnt_path, mnt_fds, mnt_calls, mnt_re, session_vars,
                    opts_vars, evented_vars, bg_vars, mnt_socks >>

\* lines 104-105: the first attempt failed with NotConnected;
\* unmount(mountpoint.as_ref())? returns its error from mount()
MountUnmountStale ==
    /\ mnt_pc = "match"
    /\ ~mnt_re[1].ok /\ mnt_re[1].val = ENOTCONN
    /\ \E rc \in UmountResults :
          /\ mnt_calls' = Append(mnt_calls, SysUmount(mnt_path, rc))
          /\ IF Unmount(rc).panics
             THEN mnt_pc' = "panicked" /\ mnt_result' = mnt_result
             ELSE IF Unmount(rc).err # 0
             THEN mnt_pc' = "returned" /\ mnt_result' = <<Err(Unmount(rc).err)>>
             ELSE mnt_pc' = "retry" /\ mnt_result' = mnt_result
    /\ UNCHANGED << mnt_path, mnt_fds, mnt_re, session_vars,
                    opts_vars, evented_vars, bg_vars, mnt_socks >>

\* line 106: fuse_mount_sys(mountpoint, args), whose result is returned
MountRetry ==
    /\ mnt_pc = "retry"
    /\ \E o \in FuseMountSys(mnt_path, mnt_fds) :
          /\ mnt_calls' = mnt_calls \o o.calls
          /\ mnt_fds' = o.fds
          /\ mnt_re' = Append(mnt_re, o.re)
          /\ mnt_result' = <<o.re>>
    /\ mnt_pc' = "returned"
    /\ UNCHANGED << mnt_path, session_vars,
                    opts_vars, evented_vars, bg_vars, mnt_socks >>

\* what the steps of fuse_mount_fuser leave alone
fuser_frame == << mnt_path, mnt_re, session_vars, opts_vars, evented_vars, bg_vars >>

SysSocketpair(fd, rc) == [call |-> "socketpair", fd |-> fd, path |-> "", rc |-> rc]

SysRecvFd(fd) == [call |-> "recvfd", fd |-> fd, path |-> "", rc |-> 0]

\* exit statuses of the helper when it ends without passing a descriptor
HelperFailures == {1}

\* lines 111 and 125-128: fuse_mount_fuser is called; UnixStream::pair()?
\* gives two connected sockets or its error is returned.  F_SETFD on a
\* descriptor just created does not fail.
MountFuser ==
    /\ mnt_pc = "fuser"
    /\ \/ /\ mnt_calls' = Append(mnt_calls, SysSocketpair(0, EMFILE))
          /\ mnt_fds' = mnt_fds
          /\ mnt_socks' = mnt_socks
          /\ mnt_result' = <<Err(EMFILE)>>
          /\ mnt_pc' = "returned"
       \/ LET sock1 == LowestFree(mnt_fds)
              sock2 == LowestFree(mnt_fds \cup {sock1})
          IN  /\ mnt_calls' = Append(mnt_calls, SysSocketpair(sock1, 0))
              /\ mnt_fds' = mnt_fds \cup {sock1, sock2}
              /\ mnt_socks' = << sock1, sock2 >>
              /\ mnt_result' = mnt_result
              /\ mnt_pc' = "spawn"
    /\ UNCHANGED fuser_frame

\* lines 129-136: Command::new("/usr/bin/fusermount")...spawn()?: the
\* helper is started with a copy of sock2, or the error of spawn is
\* returned and both sockets are dropped
FuserSpawn ==
    /\ mnt_pc = "spawn"
    /\ \/ /\ mnt_calls' = Append(mnt_calls, SysFusermount(mnt_path, ENOENT))
          /\ mnt_fds' = mnt_fds \ {mnt_socks[1], mnt_socks[2]}
          /\ mnt_socks' = <<>>
          /\ mnt_result' = <<Err(ENOENT)>>
          /\ mnt_pc' = "returned"
       \/ /\ mnt_calls' = mnt_calls
          /\ mnt_fds' = mnt_fds
          /\ mnt_socks' = mnt_socks
          /\ mnt_result' = mnt_result
          /\ mnt_pc' = "recvfd"
    /\ UNCHANGED fuser_frame

\* line 137: sock1.recvfd() while the helper runs.  The helper mounts and
\* passes the descriptor of /dev/fuse, which recvfd returns and the sockets
\* are dropped; or the helper ends without passing one, and since the
\* parent still holds sock2 itself, sock1 never reads end of file: the
\* blocking recvmsg does not return.
FuserRecvFd ==
    /\ mnt_pc = "recvfd"
    /\ \/ LET fd == LowestFree(mnt_fds)
          IN  /\ mnt_calls' = mnt_calls \o << SysFusermount(mnt_path, 0),
                                              SysRecvFd(fd) >>
              /\ mnt_fds' = (mnt_fds \ {mnt_socks[1], mnt_socks[2]}) \cup {fd}
              /\ mnt_socks' = <<>>
              /\ mnt_result' = <<Ok(fd)>>
              /\ mnt_pc' = "returned"
       \/ \E st \in HelperFailures :
              /\ mnt_calls' = Append(mnt_calls, SysFusermount(mnt_path, st))
              /\ mnt_fds' = mnt_fds
              /\ mnt_socks' = mnt_socks
              /\ mnt_result' = mnt_result
              /\ mnt_pc' = "recv_blocked"
    /\ UNCHANGED fuser_frame

\* ll::fuse::fuse_mount_sys(mountpoint, flags), the mount routine of
\* Channel::new, with the descriptors fds open: open("/dev/fuse").unwrap()
\* panics when the open fails; when the mount syscall fails its negative
\* result is returned and the File is dropped, and so closed; on success
\* into_raw_fd hands the descriptor out
FuseMountSysRaw(path, fds) ==
    LET fd == LowestFree(fds) IN
    {[calls |-> <<SysOpen(0, e)>>, fds |-> fds, re |-> Err(e), panics |-> TRUE] :
        e \in OpenErrnos}
    \cup {[calls |-> <<SysOpen(fd, 0), SysMount(path, fd, 0)>>,
           fds |-> fds \cup {fd}, re |-> Ok(fd), panics |-> FALSE]}
    \cup {[calls |-> <<SysOpen(fd, 0), SysMount(path, fd, e), SysClose(fd)>>,
           fds |-> fds, re |-> Err(e), panics |-> FALSE] : e \in MountErrnos}

\* Channel::new(mountpoint, options): fuse_mount_sys of ll::fuse is called;
\* fd < 0 becomes Err(io::Error::last_os_error()), else the channel owns fd
ChannelNew ==
    /\ mnt_pc = "idle"
    /\ \E p \in MountPaths, fds \in PreOpen :
          /\ mnt_path' = p
          /\ \E o \in FuseMountSysRaw(p, fds) :
                /\ mnt_calls' = mnt_calls \o o.calls
                /\ mnt_fds' = o.fds
                /\ mnt_result' = IF o.panics THEN mnt_result ELSE <<o.re>>
                /\ mnt_pc' = IF o.panics THEN "panicked" ELSE "returned"
    /\ UNCHANGED << mnt_re, mnt_socks, session_vars, opts_vars, evented_vars, bg_vars >>

SysUmount2(path, rc) == [call |-> "umount2", fd |-> 0, path |-> path, rc |-> rc]

\* fuse_mount_android_compat(mountpoint, args) with the descriptors fds
\* open: -1 when /dev/fuse cannot be opened; else umount2(MNT_DETACH) on the
\* target, its result ignored, and the mount syscall: -3 when it fails, the
\* File being dropped, and so closed, at the return; else the descriptor
FuseMountAndroidCompat(path, fds) ==
    LET fd == LowestFree(fds) IN
    {[calls |-> <<SysOpen(0, e)>>, fds |-> fds, re |-> Err(-1)] : e \in OpenErrnos}
    \cup {[calls |-> <<SysOpen(fd, 0), SysUmount2(path, u), SysMount(path, fd, 0)>>,
           fds |-> fds \cup {fd}, re |-> Ok(fd)] : u \in {0, EINVAL}}
    \cup {[calls |-> <<SysOpen(fd, 0), SysUmount2(path, u), SysMount(path, fd, e),
                       SysClose(fd)>>,
           fds |-> fds, re |-> Err(-3)] : u \in {0, EINVAL}, e \in MountErrnos}

\* fuse_mount_android_compat is called and returns
MountAndroid ==
    /\ mnt_pc = "idle"
    /\ \E p \in MountPaths, fds \in PreOpen :
          /\ mnt_path' = p
          /\ \E o \in FuseMountAndroidCompat(p, fds) :
                /\ mnt_calls' = mnt_calls \o o.calls
                /\ mnt_fds' = o.fds
                /\ mnt_result' = <<o.re>>
    /\ mnt_pc' = "returned"
    /\ UNCHANGED << mnt_re, mnt_socks, session_vars, opts_vars, evented_vars, bg_vars >>

NextMount ==
    \/ MountCall
    \/ ChannelNew
    \/ MountAndroid
    \/ MountCaps
    \/ MountFirstAttempt
    \/ MountReturnFirst
    \/ MountUnmountStale
    \/ MountRetry
    \/ MountFuser
    \/ FuserSpawn
    \/ FuserRecvFd

SpecMount == InitMount /\ [][NextMount]_vars

(* ---------------------------- mount options -------------------------- *)

\* texts are sequences of characters
Digits == <<"0", "1", "2", "3", "4", "5", "6", "7", "8", "9">>

RECURSIVE Dec(_)
\* the `{}` formatting of an unsigned integer: its decimal digits
Dec(n) ==
    IF n < 10 THEN <<Digits[n + 1]>>
    ELSE Dec(n \div 10) \o <<Digits[(n % 10) + 1]>>

\* the variants of MountOpt: n is the number of Fd, RootMode, UID and GID,
\* s the text of Name, items the vector of List
MountOpt(tag, n, s, items) == [tag |-> tag, n |-> n, s |-> s, items |-> items]

Fd(n) == MountOpt("Fd", n, <<>>, <<>>)

RootMode(n) == MountOpt("RootMode", n, <<>>, <<>>)

DefaultPermissions == MountOpt("DefaultPermissions", 0, <<>>, <<>>)

AllowOther == MountOpt("AllowOther", 0, <<>>, <<>>)

UID(n) == MountOpt("UID", n, <<>>, <<>>)

GID(n) == MountOpt("GID", n, <<>>, <<>>)

List(items) == MountOpt("List", 0, <<>>, items)

Name(s) == MountOpt("Name", 0, s, <<>>)

RECURSIVE Display(_)
RECURSIVE DisplayList(_, _)
\* the List arm of fmt: every element from position index on (counted from
\* 0), each followed by "," unless it is the last
DisplayList(lst, index) ==
    IF index >= Len(lst) THEN <<>>
    ELSE Display(lst[index + 1])
            \o (IF index < Len(lst) - 1 THEN <<",">> ELSE <<>>)
            \o DisplayList(lst, index + 1)

\* impl fmt::Display for MountOpt
Display(o) ==
    CASE o.tag = "Fd" -> <<"f", "d", "=">> \o Dec(o.n)
      [] o.tag = "Name" -> <<"f", "s", "n", "a", "m", "e", "=">> \o o.s
      [] o.tag = "RootMode" ->
            <<"r", "o", "o", "t", "m", "o", "d", "e", "=">> \o Dec(o.n)
      [] o.tag = "DefaultPermissions" ->
            <<"d", "e", "f", "a", "u", "l", "t", "_",
              "p", "e", "r", "m", "i", "s", "s", "i", "o", "n", "s">>
      [] o.tag = "AllowOther" ->
            <<"a", "l", "l", "o", "w", "_", "o", "t", "h", "e", "r">>
      [] o.tag = "UID" -> <<"u", "s", "e", "r", "_", "i", "d", "=">> \o Dec(o.n)
      [] o.tag = "GID" ->
            <<"g", "r", "o", "u", "p", "_", "i", "d", "=">> \o Dec(o.n)
      [] o.tag = "List" -> DisplayList(o.items, 0)

\* mutant: a single option added to a List goes after the List's options
Add_SingleLast(self, add) ==
    IF self.tag = "List"
    THEN IF add.tag = "List"
         THEN List(self.items \o add.items)
         ELSE List(Append(self.items, add))
    ELSE IF add.tag = "List"
    THEN List(Append(add.items, self))
    ELSE List(<<self, add>>)

RECURSIVE Add(_, _)
\* impl ops::Add<MountOpt> for MountOpt
Add(self, add) ==
    IF self.tag = "List"
    THEN IF add.tag = "List"
         THEN List(self.items \o add.items)
         ELSE List(Append(self.items, add))
    ELSE Add(List(<<self>>), add)

\* single options a caller can build, one of them a filesystem name with a
\* comma in it
SingleOpts ==
    {Fd(3), RootMode(40755), DefaultPermissions, AllowOther, UID(0), GID(1000),
     Name(<<"f", "s">>), Name(<<"a", ",">>)}

\* option sets a caller can build: a single option or a List, empty, flat
\* or holding a List
OptSets ==
    SingleOpts \cup
    {List(<<>>), List(<<AllowOther>>), List(<<UID(0), GID(1000)>>),
     List(<<List(<<>>)>>), List(<<List(<<UID(0)>>)>>)}

\* third operands
ThirdOpts ==
    {AllowOther, Name(<<"a", ",">>), List(<<>>), List(<<UID(0), GID(1000)>>)}

\* the ids of the calling process: an ordinary process, and one run from a
\* set-user-id root binary, whose effective ids differ from the real ones
ProcessIds ==
    {[ruid |-> 1000, euid |-> 1000, rgid |-> 1000, egid |-> 1000],
     [ruid |-> 1000, euid |-> 0, rgid |-> 100, egid |-> 0]}

\* param_contains!(self, MountOpt::<tag>): self is that variant, or a List
\* with an element of that variant
ParamContains(self, tag) ==
    IF self.tag = tag THEN TRUE
    ELSE IF self.tag = "List"
    THEN \E i \in 1..Len(self.items) : self.items[i].tag = tag
    ELSE FALSE

\* mutant: the defaults are the effective ids and the numeric mode 0o40755
MissingDefault_Effective(self, ids) ==
    LET u == IF ~ParamContains(self, "UID") THEN Add(self, UID(ids.euid))
             ELSE self
        g == IF ~ParamContains(u, "GID") THEN Add(u, GID(ids.egid)) ELSE u
    IN  IF ~ParamContains(g, "RootMode") THEN Add(g, RootMode(16877)) ELSE g

\* MountOpt::missing_default in a process with the given ids: getuid and
\* getgid return the real ids
MissingDefault(self, ids) ==
    LET u == IF ~ParamContains(self, "UID") THEN Add(self, UID(ids.ruid))
             ELSE self
        g == IF ~ParamContains(u, "GID") THEN Add(u, GID(ids.rgid)) ELSE u
    IN  IF ~ParamContains(g, "RootMode") THEN Add(g, RootMode(40755)) ELSE g

InitOpts ==
    /\ SessionOff
    /\ MountOff
    /\ opt_pc = "operands"
    /\ opt_a \in OptSets
    /\ opt_b \in OptSets
    /\ opt_sum = <<>>
    /\ opt_text = <<>>
    /\ opt_c \in ThirdOpts
    /\ opt_ids \in ProcessIds
    /\ opt_assoc = <<>>
    /\ opt_def = <<>>
    /\ EventedOff
    /\ BackgroundOff

\* opt_a + opt_b
OptAdd ==
    /\ opt_pc = "operands"
    /\ opt_sum' = <<Add(opt_a, opt_b)>>
    /\ opt_pc' = "combined"
    /\ UNCHANGED << opt_a, opt_b, opt_text, opt_c, opt_ids, opt_assoc, opt_def,
                    session_vars, mount_vars, evented_vars, bg_vars >>

\* (opt_a + opt_b) + opt_c, opt_a + (opt_b + opt_c), and opt_a added to
\* the empty List on either side
OptAddThree ==
    /\ opt_pc = "combined"
    /\ opt_assoc' = << [left |-> Add(opt_sum[1], opt_c),
                        right |-> Add(opt_a, Add(opt_b, opt_c)),
                        ea |-> Add(List(<<>>), opt_a),
                        ae |-> Add(opt_a, List(<<>>))] >>
    /\ opt_pc' = "grouped"
    /\ UNCHANGED << opt_a, opt_b, opt_sum, opt_text, opt_c, opt_ids, opt_def,
                    session_vars, mount_vars, evented_vars, bg_vars >>

\* opt_a.missing_default() and opt_a.missing_default().missing_default()
OptDefaults ==
    /\ opt_pc = "grouped"
    /\ opt_def' = << [once |-> MissingDefault(opt_a, opt_ids),
                      twice |-> MissingDefault(MissingDefault(opt_a, opt_ids),
                                               opt_ids)] >>
    /\ opt_pc' = "defaulted"
    /\ UNCHANGED << opt_a, opt_b, opt_sum, opt_text, opt_c, opt_ids, opt_assoc,
                    session_vars, mount_vars, evented_vars, bg_vars >>

\* format!("{}", ..) of the operands and of everything built from them
OptFormat ==
    /\ opt_pc = "defaulted"
    /\ opt_text' = [a |-> Display(opt_a), b |-> Display(opt_b),
                    sum |-> Display(opt_sum[1]),
                    left |-> Display(opt_assoc[1].left),
                    right |-> Display(opt_assoc[1].right),
                    ea |-> Display(opt_assoc[1].ea),
                    ae |-> Display(opt_assoc[1].ae),
                    once |-> Display(opt_def[1].once),
                    twice |-> Display(opt_def[1].twice)]
    /\ opt_pc' = "rendered"
    /\ UNCHANGED << opt_a, opt_b, opt_sum, opt_c, opt_ids, opt_assoc, opt_def,
                    session_vars, mount_vars, evented_vars, bg_vars >>

NextOpts ==
    \/ OptAdd
    \/ OptAddThree
    \/ OptDefaults
    \/ OptFormat

SpecOpts == InitOpts /\ [][NextOpts]_vars

(* ------------------------- background session ------------------------ *)

\* BackgroundSession::new has returned: the session, mounted on MountPath,
\* was moved into a thread that will call run, and the caller holds the
\* handle
InitBackground ==
    /\ proto_major = 0
    /\ proto_minor = 0
    /\ initialized = FALSE
    /\ destroyed = FALSE
    /\ pc = "idle"
    /\ req = NoRequest
    /\ pre = SessionStore
    /\ reply = <<>>
    /\ init_res = -1
    /\ sent = <<>>
    /\ handed = <<>>
    /\ calls = <<>>
    /\ destroy_calls = 0
    /\ ndispatched = 0
    /\ send_rc = <<>>
    /\ logged = {}
    /\ run_pc = "created"
    /\ last_read = NoRead
    /\ recv = NoRecv
    /\ run_result = -1
    /\ open_fds = {ChannelFd}
    /\ syscalls = <<>>
    /\ late = <<>>
    /\ MountOff
    /\ OptsOff
    /\ EventedOff
    /\ bg_pc = "running"
    /\ mounted = TRUE

\* results of libc::umount on the mount path: while it is mounted those of
\* UmountResults, afterwards EPERM without privilege and EINVAL with it
UmountOutcomes(m) == IF m THEN UmountResults ELSE {EPERM, EINVAL}

\* somebody else unmounts the filesystem (fusermount -u, umount)
KernelUnmount ==
    /\ bg_pc = "running"
    /\ mounted
    /\ mounted' = FALSE
    /\ UNCHANGED << mount_vars, opts_vars, evented_vars, bg_pc, session_vars,
                    dispatcher_vars, logged >>

\* the read of the background loop: it fails with ENODEV exactly when the
\* filesystem is no longer mounted
BgReceive ==
    /\ RunReceive
    /\ (~last_read'.ok /\ last_read'.errno = ENODEV) <=> ~mounted

\* the closure of the thread ends: the session is dropped and with it the
\* channel, libc::close(self.fd) and let _ = unmount(&self.mountpoint)
BgThreadEnd ==
    /\ run_pc = "returned"
    /\ \E rc \in UmountOutcomes(mounted) :
          /\ syscalls' = syscalls \o << SysClose(ChannelFd), SysUmount(MountPath, rc) >>
          /\ run_pc' = IF Unmount(rc).panics THEN "panicked" ELSE "released"
          /\ mounted' = (mounted /\ rc # 0)
    /\ open_fds' = open_fds \ {ChannelFd}
    /\ UNCHANGED << mount_vars, opts_vars, evented_vars, bg_pc, dispatcher_vars,
                    logged, last_read, recv, run_result, late >>

\* Drop for BackgroundSession: channel::unmount(&self.mountpoint); Ok is
\* ignored, Err is logged, and the unimplemented!() of the
\* permission-denied branch panics.  Either way the fields are dropped
\* next, the JoinGuard among them, which joins the thread.
BgDrop ==
    /\ bg_pc = "running"
    /\ \E rc \in UmountOutcomes(mounted) :
          /\ syscalls' = Append(syscalls, SysUmount(MountPath, rc))
          /\ mounted' = (mounted /\ rc # 0)
          /\ bg_pc' = IF Unmount(rc).panics THEN "unwinding" ELSE "joining"
    /\ UNCHANGED << mount_vars, opts_vars, evented_vars, dispatcher_vars, logged,
                    run_pc, last_read, recv, run_result, open_fds, late >>

\* the join of the JoinGuard returns once the thread has ended
BgJoin ==
    /\ bg_pc \in {"joining", "unwinding"}
    /\ run_pc \in {"released", "panicked"}
    /\ bg_pc' = IF bg_pc = "joining" THEN "joined" ELSE "panicked"
    /\ UNCHANGED << mount_vars, opts_vars, evented_vars, mounted, session_vars,
                    dispatcher_vars, logged >>

\* the steps of the background thread
BgThread ==
    \/ Next
    \/ RunStart
    \/ BgReceive
    \/ RunContinue
    \/ RunRetry
    \/ RunReturn
    \/ BgThreadEnd

NextBackground ==
    \/ BgThread
    \/ KernelUnmount
    \/ BgDrop
    \/ BgJoin

SpecBackground == InitBackground /\ [][NextBackground]_vars

\* the thread is scheduled as long as it can take a step, and so is the
\* owner of the handle once it waits in the join
FairSpecBackground ==
    SpecBackground /\ WF_vars(BgThread) /\ WF_vars(BgJoin)

(* --------------------------- evented session -------------------------- *)

\* messages the kernel has queued at most, and calls of try_handle
MaxQueued == 2
MaxReceives == 3

\* the requests the kernel sends an evented session: one of every kind the
\* dispatcher tells apart, with one unique id
EvRequests ==
    {r \in Requests :
        /\ r.unique = 1
        /\ r.op \in {"Init", "Destroy", "Interrupt", "Forget", "ReadDir", "GetAttr"}
        /\ r.op = "Init" =>
              /\ r.major \in {6, 7}
              /\ r.minor = 6
              /\ r.flags = 1
              /\ r.max_readahead = 4096}

\* a queued message: one that parses into a request, or one that does not
EvMessages == {rd \in ReadOutcomes : rd.ok /\ (rd.parses => rd.req \in EvRequests)}

\* a read that fails with the given errno
ReadFails(e) == [ok |-> FALSE, errno |-> e, parses |-> FALSE, req |-> NoRequest]

\* EventedSession::new has returned: Channel::new mounted the filesystem on
\* a descriptor opened without O_NONBLOCK and wrapped the channel
InitEvented ==
    /\ proto_major = 0
    /\ proto_minor = 0
    /\ initialized = FALSE
    /\ destroyed = FALSE
    /\ pc = "idle"
    /\ req = NoRequest
    /\ pre = SessionStore
    /\ reply = <<>>
    /\ init_res = -1
    /\ sent = <<>>
    /\ handed = <<>>
    /\ calls = <<>>
    /\ destroy_calls = 0
    /\ ndispatched = 0
    /\ send_rc = <<>>
    /\ logged = {}
    /\ run_pc = "ev_idle"
    /\ last_read = NoRead
    /\ recv = NoRecv
    /\ run_result = -1
    /\ open_fds = {ChannelFd}
    /\ syscalls = <<>>
    /\ late = <<>>
    /\ MountOff
    /\ OptsOff
    /\ ev_queue = <<>>
    /\ ev_nonblock = FALSE
    /\ ev_out = <<>>
    /\ bg_pc = "off"
    /\ mounted = TRUE

\* what the kernel's steps leave alone
ev_kernel_frame ==
    << mount_vars, opts_vars, bg_pc, dispatcher_vars, logged, run_pc, last_read,
       recv, run_result, open_fds, syscalls, late, ev_nonblock, ev_out >>

\* requests received or queued and not yet counted as dispatched
EvPending ==
    Len(SelectSeq(ev_queue, LAMBDA m : m.parses))
        + (IF run_pc = "received" /\ recv.kind = "Some" THEN 1 ELSE 0)

\* the kernel queues a message for the filesystem, between two calls of
\* try_handle or while one is blocked in its read
KernelQueue ==
    /\ mounted
    /\ run_pc \in {"ev_idle", "ev_blocked"}
    /\ Len(ev_queue) < MaxQueued
    /\ \E m \in EvMessages :
          /\ m.parses => ndispatched + EvPending < MaxRequests
          /\ ev_queue' = Append(ev_queue, m)
    /\ mounted' = mounted
    /\ UNCHANGED ev_kernel_frame

\* the filesystem is unmounted: what is queued is discarded
EvKernelUnmount ==
    /\ mounted
    /\ run_pc \in {"ev_idle", "ev_blocked"}
    /\ mounted' = FALSE
    /\ ev_queue' = <<>>
    /\ UNCHANGED ev_kernel_frame

\* Channel::evented: ll::channel::set_nonblocking(self.fd, true) sets
\* O_NONBLOCK on the descriptor.  EventedSession::new does not call it; a
\* caller inside the crate can, before wrapping the channel.
ChannelEvented ==
    /\ run_pc = "ev_idle"
    /\ ev_out = <<>>
    /\ ~ev_nonblock
    /\ ev_nonblock' = TRUE
    /\ UNCHANGED << mount_vars, opts_vars, bg_vars, session_vars, ev_queue, ev_out >>

\* outcomes of libc::read on the descriptor of an evented channel: ENODEV
\* once unmounted; else the first queued message; else, with nothing
\* queued, EAGAIN when O_NONBLOCK is set and no return otherwise (<<>>).
\* A read that would wait may also be interrupted (EINTR), and the device
\* may fail it with an errno receive does not name (EIO).
EvReadOutcomes ==
    IF ~mounted THEN {<< ReadFails(ENODEV) >>}
    ELSE IF ev_queue # <<>> THEN {<< Head(ev_queue) >>, << ReadFails(EIO) >>}
    ELSE IF ev_nonblock THEN {<< ReadFails(EAGAIN) >>, << ReadFails(EIO) >>}
    ELSE {<<>>, << ReadFails(EINTR) >>, << ReadFails(EIO) >>}

\* try_handle is called: self.0.receive(buffer), one read classified by
\* Channel::receive, or the thread stays in the read
EvReceive ==
    /\ run_pc \in {"ev_idle", "ev_blocked"}
    /\ Len(ev_out) < MaxReceives
    /\ \E o \in EvReadOutcomes :
          IF o = <<>>
          THEN /\ run_pc = "ev_idle"
               /\ run_pc' = "ev_blocked"
               /\ UNCHANGED << last_read, recv, logged, ev_queue >>
          ELSE /\ last_read' = o[1]
               /\ recv' = ChannelReceive(o[1])
               /\ logged' = logged \cup RequestNewLog(o[1])
               /\ ev_queue' = IF o[1].ok THEN Tail(ev_queue) ELSE ev_queue
               /\ run_pc' = "received"
    /\ UNCHANGED << mount_vars, opts_vars, bg_vars, dispatcher_vars, run_result, open_fds,
                    syscalls, late, ev_nonblock, ev_out >>

\* the io::Result try_handle returns for a RecvResult: Err(err) for
\* Drop(Some(err)), Ok(()) for everything else
TryHandleResult(rv) ==
    IF rv.kind = "Drop" /\ rv.err # 0 THEN Err(rv.err) ELSE Ok(0)

\* try_handle returns, after request.dispatch returned in the Some arm or
\* at once in the other arms; the request and the RecvResult go out of
\* scope
EvReturn ==
    /\ \/ run_pc = "dispatching" /\ pc = "idle"
       \/ run_pc = "received" /\ recv.kind \in {"Retry", "Drop"}
    /\ ev_out' = Append(ev_out, [recv |-> recv.kind, err |-> recv.err,
                                  result |-> TryHandleResult(recv)])
    /\ run_pc' = "ev_idle"
    /\ last_read' = NoRead
    /\ recv' = NoRecv
    /\ req' = NoRequest
    /\ pre' = SessionStore
    /\ init_res' = -1
    /\ sent' = <<>>
    /\ handed' = <<>>
    /\ calls' = <<>>
    /\ send_rc' = <<>>
    /\ logged' = {}
    /\ UNCHANGED << mount_vars, opts_vars, bg_vars, store, pc, reply, destroy_calls,
                    ndispatched, run_result, open_fds, syscalls, late,
                    ev_queue, ev_nonblock >>

NextEvented ==
    \/ Next
    \/ KernelQueue
    \/ EvKernelUnmount
    \/ ChannelEvented
    \/ EvReceive
    \/ EvReturn

SpecEvented == InitEvented /\ [][NextEvented]_vars

(* ------------------------------ properties ---------------------------- *)

\* dispatch of req has returned
Returned == pc = "idle" /\ req.op # "None"

\* the error reply the dispatcher sends for request r with the given errno
ErrorReplyFor(r, errno) == [unique |-> r.unique, error |-> -errno, body |-> <<>>]

\* the session was initialized and not destroyed when dispatch was entered
EnteredRunning == pre.initialized /\ ~pre.destroyed

\* C1: in a session where initialized is false, a dispatched request other
\* than Init (Destroy included) gets exactly one EIO reply, no filesystem
\* callback is invoked and the session store is unchanged.
C1_BeforeInitRejected ==
    (Returned /\ req.op # "Init" /\ ~pre.initialized) =>
        /\ sent = <<ErrorReplyFor(req, EIO)>>
        /\ handed = <<>>
        /\ calls = <<>>
        /\ SessionStore = pre

C1_Witness ==
    /\ Returned
    /\ req.op = "Destroy"
    /\ ~pre.initialized
    /\ Len(sent) = 1

\* C2: once destroyed is true, every request dispatched afterwards, Init and
\* Destroy included, is answered with exactly one EIO reply.
C2_AfterDestroyRejected ==
    (Returned /\ pre.destroyed) => sent = <<ErrorReplyFor(req, EIO)>>

\* C3: once destroyed is true no filesystem callback is invoked for a later
\* request, and the destroy callback runs at most once per session.
C3_NoCallbackAfterDestroy ==
    /\ (req.op # "None" /\ pre.destroyed) => calls = <<>>
    /\ destroy_calls <= 1

\* C4: for every dispatched request other than Forget exactly one reply is
\* produced: the dispatcher sends exactly one reply itself (state rejection,
\* Init, Destroy, Interrupt) or it constructs exactly one reply object and
\* passes it to exactly one callback; never two, never both.
C4_ExactlyOneReply ==
    /\ Len(sent) + Len(handed) <= 1
    /\ (Returned /\ req.op # "Forget") =>
         IF \/ req.op \in {"Init", "Destroy", "Interrupt"}
            \/ ~pre.initialized
            \/ pre.destroyed
         THEN Len(sent) = 1 /\ handed = <<>>
         ELSE sent = <<>> /\ Len(handed) = 1 /\ calls = <<handed[1].to>>

C4_Witness ==
    /\ Returned
    /\ EnteredRunning
    /\ req.op = "Write"
    /\ Len(handed) = 1
    /\ ndispatched >= 2

\* C5 (as claimed): dispatching a Forget never sends a reply, in any session
\* state, and Forget is the only kind with neither a reply nor a reply object.
C5_ForgetNeverReplies ==
    /\ (Returned /\ req.op = "Forget") => sent = <<>> /\ handed = <<>>
    /\ (Returned /\ req.op # "Forget") => Len(sent) + Len(handed) >= 1

\* C5 (amended): a Forget dispatched in an initialized, not destroyed session
\* calls forget and neither sends a reply nor constructs a reply object; a
\* Forget dispatched before Init or after Destroy is rejected with one EIO
\* reply like any other request; every request other than Forget gets a reply
\* sent or a reply object constructed.
C5_ForgetNoReplyWhenRunning ==
    /\ (Returned /\ req.op = "Forget" /\ EnteredRunning) =>
         sent = <<>> /\ handed = <<>> /\ calls = <<"forget">>
    /\ (Returned /\ req.op = "Forget" /\ ~EnteredRunning) =>
         sent = <<ErrorReplyFor(req, EIO)>> /\ handed = <<>> /\ calls = <<>>
    /\ (Returned /\ req.op # "Forget") => Len(sent) + Len(handed) >= 1

C5_Witness ==
    /\ Returned
    /\ req.op = "Forget"
    /\ EnteredRunning
    /\ calls = <<"forget">>

\* C6: every reply sent and every reply object constructed while dispatching
\* a request carries that request's unique id.
C6_ReplyCarriesUnique ==
    /\ \A i \in 1..Len(sent) : sent[i].unique = req.unique
    /\ \A i \in 1..Len(handed) : handed[i].unique = req.unique
    /\ \A i \in 1..Len(reply) : reply[i].unique = req.unique

C6_Witness ==
    /\ Returned
    /\ req.op = "ReadDir"
    /\ Len(handed) = 1
    /\ handed[1].ctor = "ReplyDirectory::new"
    /\ req.unique = MaxUnique

\* the kernel's version in req is below 7.6
ReqBelow76 == req.major < 7 \/ (req.major = 7 /\ req.minor < 6)

\* C7: an Init with a kernel version below 7.6 gets exactly one EPROTO reply,
\* the init callback is not invoked and the session store is unchanged; a
\* non-Init request dispatched next in a fresh session is rejected with EIO.
C7_OldAbiRejected ==
    /\ [](  (Returned /\ req.op = "Init" /\ ReqBelow76) =>
              /\ sent = <<ErrorReplyFor(req, EPROTO)>>
              /\ calls = <<>>
              /\ handed = <<>>
              /\ SessionStore = pre )
    /\ [][ ( /\ Returned /\ req.op = "Init" /\ ReqBelow76 /\ ~pre.initialized
             /\ pc' = "idle" /\ ndispatched' = ndispatched + 1 )
           => sent' = <<ErrorReplyFor(req', EIO)>> /\ calls' = <<>> ]_vars

C7_Witness ==
    /\ Returned
    /\ req.op = "Init"
    /\ req.major = 7
    /\ req.minor = 5
    /\ sent = <<ErrorReplyFor(req, EPROTO)>>

\* C8: an Init with a version of at least 7.6 whose init callback succeeds
\* records the kernel's major and minor, sets initialized, and sends exactly
\* one INIT_OUT reply with the library's version, the kernel's max_readahead,
\* flags = kernel flags AND the supported mask (bit 0, FUSE_ASYNC_READ, so
\* the AND is the flags' parity) and max_write = 16777216.
C8_InitAccepted ==
    (Returned /\ req.op = "Init" /\ ~ReqBelow76 /\ init_res = 0) =>
        /\ proto_major = req.major
        /\ proto_minor = req.minor
        /\ initialized
        /\ calls = <<"init">>
        /\ sent = << [unique |-> req.unique, error |-> 0,
                      body |-> << [major |-> FUSE_KERNEL_VERSION,
                                   minor |-> FUSE_KERNEL_MINOR_VERSION,
                                   max_readahead |-> req.max_readahead,
                                   flags |-> req.flags % 2,
                                   unused |-> 0,
                                   max_write |-> 16777216] >>] >>

C8_Witness ==
    /\ Returned
    /\ req.op = "Init"
    /\ init_res = 0
    /\ req.flags = 3
    /\ req.max_readahead = 4096
    /\ proto_major = 8
    /\ initialized
    /\ Len(sent) = 1

\* C9 (as claimed): initialized becomes true only after the INIT_OUT reply
\* was sent; in no state is it newly true with that reply not yet sent.
C9_InitializedAfterReply ==
    (req.op = "Init" /\ ~pre.initialized /\ initialized) => Len(sent) = 1

\* C9 (amended): initialized becomes true immediately before the INIT_OUT
\* reply is sent: the only state in which it is newly true with the reply not
\* yet sent is the point between these two consecutive statements, and when
\* the dispatch returns the INIT_OUT reply has been sent.
C9_InitializedJustBeforeReply ==
    (req.op = "Init" /\ ~pre.initialized /\ initialized) =>
        \/ pc = "init_reply" /\ sent = <<>> /\ init_res = 0
        \/ pc = "idle" /\ Len(sent) = 1 /\ sent[1].error = 0
                       /\ Len(sent[1].body) = 1

C9_Witness ==
    /\ pc = "init_reply"
    /\ req.op = "Init"
    /\ ~pre.initialized
    /\ initialized
    /\ sent = <<>>

\* C10: if the init callback returns an error for an Init with an acceptable
\* version, exactly one error reply with that errno is sent, no INIT_OUT is
\* sent, and initialized keeps the value it had before the request.
C10_InitCallbackError ==
    (Returned /\ req.op = "Init" /\ ~ReqBelow76 /\ init_res > 0) =>
        /\ sent = <<ErrorReplyFor(req, init_res)>>
        /\ calls = <<"init">>
        /\ initialized = pre.initialized
        /\ destroyed = pre.destroyed

C10_Witness ==
    /\ Returned
    /\ req.op = "Init"
    /\ init_res = ENOSYS
    /\ ~initialized
    /\ Len(sent) = 1

\* C11: a session starts with (proto_major, proto_minor, initialized,
\* destroyed) = (0, 0, false, false); a Destroy dispatched in an initialized,
\* not-destroyed session invokes the destroy callback, sets destroyed and is
\* answered with one OK reply; destroyed never goes back to false.
C11_DestroyLifecycle ==
    /\ (proto_major = 0 /\ proto_minor = 0 /\ ~initialized /\ ~destroyed)
    /\ []((Returned /\ req.op = "Destroy" /\ pre.initialized /\ ~pre.destroyed) =>
            /\ calls = <<"destroy">>
            /\ destroyed
            /\ sent = <<[unique |-> req.unique, error |-> 0, body |-> <<>>]>>)
    /\ [][destroyed => destroyed']_vars

C11_Witness ==
    /\ Returned
    /\ req.op = "Init"
    /\ pre.destroyed
    /\ destroyed
    /\ destroy_calls = 1
    /\ ndispatched = 3

\* the last read on the descriptor gave a message that does not parse
ReadMalformed == last_read.ok /\ ~last_read.parses

\* C12: receive classifies the outcome of one read: a read failing with
\* EINTR, EAGAIN or ENOENT yields Retry; with ENODEV a detach without error;
\* with any other errno a detach carrying that errno; a successful read of a
\* well-formed request yields that request as a message.
C12_ReceiveClassification ==
    last_read # NoRead =>
        /\ (~last_read.ok /\ last_read.errno \in {EINTR, EAGAIN, ENOENT}) =>
                recv.kind = "Retry"
        /\ (~last_read.ok /\ last_read.errno = ENODEV) =>
                (recv.kind = "Drop" /\ recv.err = 0)
        /\ (~last_read.ok /\ last_read.errno \notin {EINTR, EAGAIN, ENOENT, ENODEV}) =>
                (recv.kind = "Drop" /\ recv.err = last_read.errno)
        /\ (last_read.ok /\ last_read.parses) =>
                (recv.kind = "Some" /\ recv.req = last_read.req)

C12_Witness ==
    /\ run_pc = "received"
    /\ ~last_read.ok
    /\ last_read.errno = ENOENT
    /\ recv.kind = "Retry"
    /\ ndispatched > 0

\* C13: run returns Ok(()) exactly when receive reports a detach without
\* error and Err(e) exactly when it reports a detach with error e; otherwise
\* it keeps looping: a message is dispatched and the loop continues, a retry
\* dispatches nothing and sends no reply.
C13_RunResult ==
    /\ [](run_result # -1 =>
            /\ run_pc \notin {"created", "receive", "received", "dispatching"}
            /\ recv.kind = "Drop"
            /\ (run_result = 0 <=> recv.err = 0)
            /\ (run_result > 0 => recv.err = run_result))
    /\ [][(run_pc = "received" /\ recv.kind = "Drop") =>
            /\ run_pc' = "returned"
            /\ run_result' = (IF recv.err = 0 THEN 0 ELSE recv.err)]_vars
    /\ [][(run_pc = "received" /\ recv.kind = "Some") =>
            /\ run_pc' = "dispatching"
            /\ req' = recv.req
            /\ ndispatched' = ndispatched + 1
            /\ run_result' = -1]_vars
    /\ [][(run_pc = "dispatching" /\ run_pc' # "dispatching") =>
            (run_pc' = "receive" /\ run_result' = -1)]_vars
    /\ [][(run_pc = "received" /\ recv.kind = "Retry") =>
            /\ run_pc' = "receive"
            /\ run_result' = -1
            /\ UNCHANGED << store, sent, handed, calls, ndispatched, destroy_calls >>]_vars

C13_Witness ==
    /\ run_pc = "returned"
    /\ run_result = EIO
    /\ recv.kind = "Drop"
    /\ recv.err = EIO
    /\ ndispatched = 2

Closes ==
    {i \in 1..Len(syscalls) :
        syscalls[i].call = "close" /\ syscalls[i].fd = ChannelFd}

Umounts ==
    {i \in 1..Len(syscalls) :
        syscalls[i].call = "umount" /\ syscalls[i].path = MountPath}

\* the session has gone out of scope and its channel was dropped
Exited == run_pc \in {"released", "panicked"}

C16_UnmountFailureSwallowed ==
    \A u \in Umounts :
        syscalls[u].rc # 0 =>
            (run_pc = "released" /\ "Failed to unmount" \in logged)

\* C18: after the channel was dropped and its descriptor closed, every send
\* through a ChannelSender of that channel fails with EBADF and writes to
\* no open descriptor, whatever the process has opened in the meantime.
C18_LateSendFailsEBADF ==
    \A i \in 1..Len(late) : late[i].rc = EBADF /\ ~late[i].wrote

\* a reply of the current dispatch was not taken by the descriptor
SendFailed == \E i \in 1..Len(send_rc) : send_rc[i] # 0

\* C19: a reply whose send fails is logged and is not fatal: the dispatch
\* of that request returns normally, run does not return because of it and
\* the loop goes on to the next receive.
C19_SendFailureNotFatal ==
    /\ [](SendFailed =>
            /\ "Failed to send FUSE reply" \in logged
            /\ pc = "idle"
            /\ run_result = -1)
    /\ [][(SendFailed /\ run_pc = "dispatching") =>
            (run_pc' = "receive" /\ run_result' = -1)]_vars

C19_Witness ==
    /\ run_pc = "dispatching"
    /\ pc = "idle"
    /\ SendFailed
    /\ req.op = "Init"
    /\ initialized
    /\ ndispatched = 2

\* positions in mnt_calls of the mount syscalls and of the unmounts
MountSyscalls == {i \in 1..Len(mnt_calls) : mnt_calls[i].call = "mount"}

MountUmounts == {i \in 1..Len(mnt_calls) : mnt_calls[i].call = "umount"}

\* the privileged path of mount() was taken and the call has ended
PrivilegedDone == mnt_pc \in {"returned", "panicked"} /\ mnt_re # <<>>

\* C17: on the privileged path a first attempt failing with "not connected"
\* causes one unmount of the target and then exactly one more mount attempt
\* whose result is returned; a first attempt failing otherwise is returned
\* with no unmount and no retry; the mount syscall is made at most twice.
C17_StaleMountRetry ==
    /\ Cardinality(MountSyscalls) <= 2
    /\ PrivilegedDone =>
          IF ~mnt_re[1].ok /\ mnt_re[1].val = ENOTCONN
          THEN /\ Cardinality(MountUmounts) = 1
               /\ mnt_calls[CHOOSE u \in MountUmounts : TRUE].path = mnt_path
               /\ Len(mnt_re) = 2
               /\ mnt_result = <<mnt_re[2]>>
          ELSE /\ MountUmounts = {}
               /\ Len(mnt_re) = 1
               /\ mnt_result = <<mnt_re[1]>>

\* an option set with at least one option in it
NonEmptyOpts(o) == o.tag # "List" \/ Len(o.items) > 0

\* a text without a leading, a trailing or a doubled comma
CommaClean(t) ==
    /\ t # <<>> => (t[1] # "," /\ t[Len(t)] # ",")
    /\ \A i \in 1..(Len(t) - 1) : ~(t[i] = "," /\ t[i + 1] = ",")

\* C20: for non-empty option sets a and b the rendering of a + b is the
\* rendering of a, one comma, then the rendering of b; no rendering has a
\* leading, trailing or doubled comma.
C20_RenderConcat ==
    opt_pc = "rendered" =>
        /\ (NonEmptyOpts(opt_a) /\ NonEmptyOpts(opt_b)) =>
                opt_text.sum = opt_text.a \o <<",">> \o opt_text.b
        /\ CommaClean(opt_text.a)
        /\ CommaClean(opt_text.b)
        /\ CommaClean(opt_text.sum)

\* C21: combining options is associative and the empty List is its
\* identity, as far as the rendered string goes: (a + b) + c renders as
\* a + (b + c) does, and the empty List plus a, a plus the empty List and a
\* itself all render the same
C21_AddAssociative ==
    opt_pc = "rendered" =>
        /\ opt_text.left = opt_text.right
        /\ opt_text.ea = opt_text.ae
        /\ opt_text.ea = opt_text.a

\* three non-empty operands of which the second and third are different
\* have been combined both ways and rendered
C21_Witness ==
    /\ opt_pc = "rendered"
    /\ opt_text.a # <<>>
    /\ opt_text.b # <<>>
    /\ opt_b # opt_c
    /\ opt_c = Name(<<"a", ",">>)
    /\ opt_a.tag = "List"
    /\ opt_text.left = opt_text.right

RECURSIVE Tokens(_)
\* the options of a set that are not Lists, at any depth, in the order
\* Display writes them
Tokens(o) ==
    IF o.tag # "List" THEN << o >>
    ELSE IF o.items = <<>> THEN <<>>
    ELSE Tokens(Head(o.items)) \o Tokens(List(Tail(o.items)))

\* the options of one key in a set
TokensOf(o, tag) == SelectSeq(Tokens(o), LAMBDA t : t.tag = tag)

DefaultKeys == {"UID", "GID", "RootMode"}

\* C22: missing_default applied twice renders as applied once, and a set
\* that already holds a UID, a GID or a RootMode keeps it and gets no second
\* option of that key
C22_DefaultsIdempotent ==
    opt_pc = "rendered" =>
        /\ opt_text.twice = opt_text.once
        /\ \A key \in DefaultKeys :
              TokensOf(opt_a, key) # <<>> =>
                  TokensOf(opt_def[1].once, key) = TokensOf(opt_a, key)

\* C23 as stated: an absent RootMode is added with the value 0o40755
\* (16877), an absent UID with the effective user id, an absent GID with
\* the effective group id
C23_EffectiveDefaults ==
    opt_pc = "rendered" =>
        /\ TokensOf(opt_a, "RootMode") = <<>> =>
              TokensOf(opt_def[1].once, "RootMode") = << RootMode(16877) >>
        /\ TokensOf(opt_a, "UID") = <<>> =>
              TokensOf(opt_def[1].once, "UID") = << UID(opt_ids.euid) >>
        /\ TokensOf(opt_a, "GID") = <<>> =>
              TokensOf(opt_def[1].once, "GID") = << GID(opt_ids.egid) >>

\* C23: an absent RootMode is added with the decimal value 40755, written
\* rootmode=40755; an absent UID is added with the real user id and an
\* absent GID with the real group id of the process
C23_RealDefaults ==
    opt_pc = "rendered" =>
        /\ TokensOf(opt_a, "RootMode") = <<>> =>
              /\ TokensOf(opt_def[1].once, "RootMode") = << RootMode(40755) >>
              /\ Display(RootMode(40755)) =
                     <<"r", "o", "o", "t", "m", "o", "d", "e", "=",
                       "4", "0", "7", "5", "5">>
        /\ TokensOf(opt_a, "UID") = <<>> =>
              TokensOf(opt_def[1].once, "UID") = << UID(opt_ids.ruid) >>
        /\ TokensOf(opt_a, "GID") = <<>> =>
              TokensOf(opt_def[1].once, "GID") = << GID(opt_ids.rgid) >>

\* a set with none of the three keys got its defaults in a process whose
\* effective ids differ from its real ones
C23_Witness ==
    /\ opt_pc = "rendered"
    /\ \A key \in DefaultKeys : TokensOf(opt_a, key) = <<>>
    /\ opt_a # List(<<>>)
    /\ opt_ids.ruid # opt_ids.euid
    /\ opt_ids.rgid # opt_ids.egid
    /\ Len(Tokens(opt_def[1].once)) = Len(Tokens(opt_a)) + 3

\* C24: an Interrupt dispatched in an initialized, not destroyed session is
\* answered with exactly one ENOSYS reply, no filesystem callback is called,
\* no reply object is handed out and the session store is unchanged.
C24_InterruptENOSYS ==
    (Returned /\ req.op = "Interrupt" /\ EnteredRunning) =>
        /\ sent = <<ErrorReplyFor(req, ENOSYS)>>
        /\ handed = <<>>
        /\ calls = <<>>
        /\ SessionStore = pre

\* an Interrupt was dispatched in a running session after an earlier request
C24_Witness ==
    /\ Returned
    /\ req.op = "Interrupt"
    /\ EnteredRunning
    /\ ndispatched >= 2
    /\ Len(sent) = 1
    /\ sent[1].error = -ENOSYS

\* C27: the loop of Session::run dispatches requests in the order it
\* receives them, one at a time: a receive is issued only at the top of the
\* loop with no dispatch in progress, a received request is the next thing
\* dispatched (none is skipped or overtaken), and the request being
\* dispatched is the one the buffer holds.
C27_OneAtATime ==
    [][/\ (last_read' # last_read /\ last_read' # NoRead) =>
              /\ run_pc = "receive"
              /\ pc = "idle"
              /\ last_read = NoRead
       /\ (run_pc = "received" /\ recv.kind = "Some" /\ run_pc' # run_pc) =>
              /\ run_pc' = "dispatching"
              /\ req' = recv.req
              /\ ndispatched' = ndispatched + 1
       /\ (run_pc' = "dispatching") =>
              /\ recv'.kind = "Some"
              /\ req' = recv'.req
              /\ last_read' = last_read]_vars

\* the loop is dispatching its second request, the one it received last
C27_Witness ==
    /\ run_pc = "dispatching"
    /\ ndispatched = 2
    /\ recv.kind = "Some"
    /\ req = recv.req
    /\ pc # "idle"

\* the calls of one kind mount() has made
MountCallsOf(kind) == {i \in 1..Len(mnt_calls) : mnt_calls[i].call = kind}

\* the unprivileged path of mount() was taken
FuserTaken == MountCallsOf("socketpair") # {}

\* what mount() returns on the unprivileged path: the descriptor received
\* from the helper and no other, an error when none was received
FuserResultSound ==
    (mnt_pc = "returned" /\ FuserTaken) =>
        IF MountCallsOf("recvfd") # {}
        THEN /\ Cardinality(MountCallsOf("recvfd")) = 1
             /\ \A i \in MountCallsOf("recvfd") : mnt_result = <<Ok(mnt_calls[i].fd)>>
        ELSE /\ Len(mnt_result) = 1
             /\ ~mnt_result[1].ok

\* C29: on the unprivileged path, when the helper cannot be spawned or ends
\* without passing a descriptor, mount returns an error: it never stays
\* blocked on the socket pair, and it never returns a descriptor other than
\* the one received from the helper.
C29_HelperFailureIsError ==
    /\ mnt_pc # "recv_blocked"
    /\ FuserResultSound

\* C30: once the handle of a BackgroundSession is dropped, the filesystem
\* gets unmounted and the background loop returns, so that the join in the
\* drop ends.
C30_DropTerminates ==
    (bg_pc \in {"joining", "unwinding"}) ~> (bg_pc = "joined" /\ ~mounted)

\* C25: the receive of an evented session never blocks: a read with
\* nothing queued comes back as Retry, and with two requests queued three
\* successive receives give a request, a request and Retry.
C25_ReceiveNeverBlocks ==
    /\ run_pc # "ev_blocked"
    /\ (run_pc = "received" /\ mounted /\ ev_queue = <<>> /\ ~last_read.ok
            /\ last_read.errno = EAGAIN) => recv.kind = "Retry"
    /\ (Len(ev_out) = 3 /\ ev_out[1].recv = "Some" /\ ev_out[2].recv = "Some"
            /\ mounted /\ ev_queue = <<>> /\ ev_out[3].err = 0
            /\ ndispatched = 2 /\ ev_out[3].recv # "Drop") =>
          ev_out[3].recv = "Retry"

\* C26: the receive of the evented adapter lets its caller tell a request,
\* Retry and a detach apart: a detach without error is never reported with
\* the result a request or a Retry is reported with.
C26_OutcomesDistinguishable ==
    \A i, j \in 1..Len(ev_out) :
        (/\ ev_out[i].recv = "Drop"
         /\ ev_out[i].err = 0
         /\ ev_out[j].recv \in {"Some", "Retry"}) =>
            ev_out[i].result # ev_out[j].result

\* C28: once a receive on the channel has returned Drop, every later
\* receive returns Drop as well, never a request and never Retry.
C28_DropIsFinal ==
    \A i, j \in 1..Len(ev_out) :
        (i < j /\ ev_out[i].recv = "Drop") => ev_out[j].recv = "Drop"

\* C31: in every reachable session state, initialized implies that the
\* recorded protocol version is at least 7.6: proto_major > 7, or
\* proto_major = 7 and proto_minor >= 6, whatever Init requests were
\* dispatched and however the init callback answered.
C31_InitializedVersion ==
    initialized => \/ proto_major > 7
                   \/ proto_major = 7 /\ proto_minor >= 6

\* an initialized session has dispatched a second Init, of version 8.5,
\* whose init callback failed
C31_Witness ==
    /\ Returned
    /\ req.op = "Init"
    /\ pre.initialized
    /\ initialized
    /\ init_res \in InitErrnos
    /\ proto_major = 8
    /\ proto_minor = 5
    /\ pre.proto_major = 7

\* C32: in every reachable session state destroyed implies initialized,
\* and no step takes initialized from true back to false.
C32_DestroyedImpliesInitialized ==
    /\ [](destroyed => initialized)
    /\ [][initialized => initialized']_vars

\* a destroyed session has dispatched a further Init whose callback failed
C32_Witness ==
    /\ Returned
    /\ destroyed
    /\ initialized
    /\ pre.destroyed
    /\ req.op = "Init"
    /\ init_res \in InitErrnos

\* an Init was dispatched and no INIT_OUT reply was sent for it
InitNotOk ==
    /\ Returned
    /\ req.op = "Init"
    /\ \A i \in 1..Len(sent) : sent[i].error # 0

\* C33: an Init that does not end in an INIT_OUT reply, rejected with
\* EPROTO or failed by the init callback, leaves the whole session state
\* unchanged, proto_major and proto_minor included.
C33_FailedInitNoChange ==
    InitNotOk => SessionStore = pre

\* the handle of the BackgroundSession was dropped and its drop has ended
BgEnded == bg_pc \in {"joined", "panicked"}

\* C34: for a successful mount the unmount routine is invoked on the mount
\* path exactly once over the lifetime of the session, however the session
\* ends, also when it runs as a BackgroundSession whose handle is dropped.
C34_UnmountExactlyOnce ==
    /\ Cardinality(Umounts) <= 1
    /\ (Exited \/ BgEnded) => Cardinality(Umounts) = 1

\* the descriptors of /dev/fuse the mount routines have opened
DriverOpened ==
    {mnt_calls[i].fd : i \in {j \in MountCallsOf("open") : mnt_calls[j].rc = 0}}

\* C35: when a privileged mount attempt fails, the first attempt of a
\* stale-mount retry included, the descriptor of /dev/fuse opened for it is
\* closed before mount returns: a descriptor the mount routines opened is
\* open only while it is the result of the attempt just made, and after
\* the return only if it is the one returned to the caller.
C35_FailedAttemptClosesFd ==
    \A fd \in DriverOpened \cap mnt_fds :
        \/ mnt_result = << Ok(fd) >>
        \/ mnt_pc = "match" /\ mnt_re = << Ok(fd) >>

\* mount() has returned the error of its second attempt, after a first
\* attempt that failed with ENOTCONN: /dev/fuse was opened and closed twice
C35_Witness ==
    /\ mnt_pc = "returned"
    /\ Len(mnt_re) = 2
    /\ mnt_re[1] = Err(ENOTCONN)
    /\ ~mnt_re[2].ok
    /\ Cardinality(MountCallsOf("close")) = 2
    /\ DriverOpened \cap mnt_fds = {}
    /\ mnt_fds # {}

====
